---- MODULE Spec2Model ----
(***************************************************************************)
(* Model of src/behavioral/ChainResp.ts: a tree of directory entries       *)
(* (Directory, File, Package) and the RequestHandler that resolves a       *)
(* module name by walking the parent chain and looking into node_modules.  *)
(*                                                                         *)
(* Strings are sequences of tokens.  The token ".js" is the three          *)
(* characters '.', 'j', 's'; no other token contains a '.', so the only    *)
(* occurrences of the substring ".js" in a name are its ".js" tokens       *)
(* ("package.json" is <<"package", ".js", "on">>).                         *)
(***************************************************************************)
EXTENDS Integers, Sequences, FiniteSets, TLC

\* ------------------------------------------------------------------ bounds

\* add/rm calls explored after the objects (and the test tree) are set up
MaxOps == 2

\* nested handleRequest/tryNext escalations the engine's call stack holds
\* before it raises RangeError (larger than any acyclic chain of the pool)
StackLimit == 6

\* ------------------------------------------------------------- the objects

JS == ".js"

None == "none"

Undefined == "undefined"

\* new Directory(dName)
Dirs == {"root", "src", "nodeModules", "nodeModules2", "targetDir"}

\* new File(dName)
PlainFiles == {"requester", "targetFile", "main", "index", "targetLeaf"}

\* new Package(main)
Packages == {"pkg", "pkgBare"}

Files == PlainFiles \cup Packages

Obj == Dirs \cup Files

\* new Directory('constructor'): a name that every object literal inherits
\* from Object.prototype; and a second new Directory('target')
ExtraDirs == {"constructorDir", "targetDir2"}

AllDirs == Dirs \cup ExtraDirs

AllObj == Obj \cup ExtraDirs

Kind(x) ==
  IF x \in AllDirs THEN "Directory"
  ELSE IF x \in Packages THEN "Package"
  ELSE "File"

PackageJson == <<"package", JS, "on">>

NodeModulesName == <<"node_modules">>

IndexName == <<"index">>

\* the dName every object was constructed with
DName(x) ==
  CASE x = "root"         -> <<"root">>
    [] x = "src"          -> <<"src">>
    [] x = "nodeModules"  -> NodeModulesName
    [] x = "nodeModules2" -> NodeModulesName
    [] x = "targetDir"    -> <<"target">>
    [] x = "requester"    -> <<"requester", JS>>
    [] x = "targetFile"   -> <<"target", JS>>
    [] x = "main"         -> <<"main", JS>>
    [] x = "index"        -> <<"index", JS>>
    [] x = "targetLeaf"   -> <<"target">>
    [] x = "constructorDir" -> <<"constructor">>
    [] x = "targetDir2"   -> <<"target">>
    [] x \in Packages     -> PackageJson

\* the main attribute of a Package
Main(p) ==
  CASE p = "pkg"     -> <<"main", JS>>
    [] p = "pkgBare" -> <<"main">>

\* the module names requested
Targets == {<<"target">>, <<"main">>}

\* ------------------------------------------------------------------- state

VARIABLES
  entries,    \* entries[d]: Directory d's mapping dName -> entry
  parent,     \* parent[x]: the parent back-reference of x, or None
  ops,        \* add/rm calls made so far
  pc,         \* "idle" | "handle" (a request is walking) | "done" (a call ended)
  call,       \* the call in progress or just ended
  handlerDir, \* RequestHandler.dir of the request's handler, None without one
  visited,    \* the values handlerDir has taken during this request, in order
  inspected,  \* the directories whose entries this request has read
  result,     \* outcome of the call that ended
  commands,   \* CommandStack.commands: the array, stale slots included
  size,       \* CommandStack.size
  value,      \* CalcComputer.value
  log,        \* the calls made on the stack or the app, with what they returned
  data,       \* the number array the caller holds
  tree,       \* the TreeNodes built from it: [root, nodes]
  iter,       \* the BSTIterator's fields: [root, cursor, stack]
  out,        \* the array traverse fills
  compSize,   \* Composite: size of each component
  children,   \* Composite: Directory.children of each directory
  compParent, \* Composite: parent of each component (a name or null)
  instance,   \* Singleton: Database.instance, {} for null
  created,    \* Singleton: the Database objects constructed so far
  got,        \* Singleton: what getInstance returned since the last clean
  state,      \* Memento: File.state
  mementos,   \* Memento: MementoCareTaker.mementos, id -> Commit.state
  committed   \* Memento: id -> the file's state when commit returned id

\* the state of the Command example
cmdVars == <<commands, size, value, log>>

\* the state of the ChainResp example
treeVars == <<entries, parent, handlerDir, visited, inspected>>

\* the state of the Iterator example
iterVars == <<data, tree, iter, out>>

\* the state of the Composite example
compVars == <<compSize, children, compParent>>

\* the state of the Singleton example
singVars == <<instance, created, got>>

\* the state of the Memento example
memVars == <<state, mementos, committed>>

\* the examples beside ChainResp and Command
laterVars == <<iterVars, compVars, singVars, memVars>>

vars ==
  <<entries, parent, ops, pc, call, handlerDir, visited, inspected, result,
    commands, size, value, log, data, tree, iter, out, compSize, children,
    compParent, instance, created, got, state, mementos, committed>>

Empty == [n \in {} |-> None]

NoCall == [op |-> "none"]

NoResult == [kind |-> "none"]

\* ---------------------------------------------------------- string helpers

\* `${target}.js`
WithJs(target) == target \o <<JS>>

\* s.replace('.js', ''): the first occurrence only
ReplaceJs(s) ==
  LET at == {i \in 1..Len(s) : s[i] = JS}
  IN  IF at = {} THEN s
      ELSE LET i == CHOOSE k \in at : \A j \in at : k <= j
           IN  SubSeq(s, 1, i - 1) \o SubSeq(s, i + 1, Len(s))

\* --------------------------------------------------------------- Directory

\* the keys every entries object ({}) inherits from Object.prototype, as far
\* as the pool's names reach
ProtoNames == {<<"constructor">>}

\* dName in this.entries: an own key or an inherited one
has(d, dName) == dName \in DOMAIN entries[d] \/ dName \in ProtoNames

hasDirectory(d, target) == has(d, target)

hasFile(d, target) == has(d, WithJs(target))

hasPackage(d) == has(d, PackageJson)

\* Directory.add without the assignment dirent.parent = this
RECURSIVE AddAllNoParent(_, _, _)
AddAllNoParent(st, d, dirents) ==
  IF dirents = <<>> THEN st
  ELSE LET x == Head(dirents)
           e == st.entries[d]
           k == DName(x)
           e2 == [n \in DOMAIN e \cup {k} |-> IF n = k THEN x ELSE e[n]]
       IN  AddAllNoParent([entries |-> [st.entries EXCEPT ![d] = e2],
                           parent  |-> st.parent],
                          d, Tail(dirents))

\* Directory.add that keeps a child already stored under the dirent's name
RECURSIVE AddAllKeepExisting(_, _, _)
AddAllKeepExisting(st, d, dirents) ==
  IF dirents = <<>> THEN st
  ELSE LET x == Head(dirents)
           e == st.entries[d]
           k == DName(x)
           e2 == [n \in DOMAIN e \cup {k} |->
                    IF n \in DOMAIN e THEN e[n] ELSE x]
       IN  AddAllKeepExisting([entries |-> [st.entries EXCEPT ![d] = e2],
                               parent  |-> [st.parent EXCEPT ![x] = d]],
                              d, Tail(dirents))

\* the loop of Directory.add, one dirent after the other
RECURSIVE AddAll(_, _, _)
AddAll(st, d, dirents) ==
  IF dirents = <<>> THEN st
  ELSE LET x == Head(dirents)
           e == st.entries[d]
           k == DName(x)
           e2 == [n \in DOMAIN e \cup {k} |-> IF n = k THEN x ELSE e[n]]
       IN  AddAll([entries |-> [st.entries EXCEPT ![d] = e2],
                   parent  |-> [st.parent EXCEPT ![x] = d]],
                  d, Tail(dirents))

\* rm that empties the directory
RmEntriesAll(e, dName) == Empty

\* delete this.entries[dName]
RmEntries(e, dName) == [n \in DOMAIN e \ {dName} |-> e[n]]

\* ---------------------------------------------------------- RequestHandler

Returned(x) == [kind |-> "returned", value |-> x]

\* throwNotFound with a message that leaves the target out
throwNotFoundNoTarget(target) == [kind |-> "ReferenceError", target |-> <<>>]

\* throw ReferenceError(`Cannot find module ${target}.`)
throwNotFound(target) == [kind |-> "ReferenceError", target |-> target]

\* a call of a method the receiver does not have, or of .replace on undefined
TypeError == [kind |-> "TypeError"]

\* the recursion handleRequest -> tryNext -> handleRequest ran out of stack
RangeError == [kind |-> "RangeError"]

\* resolveAsModule(mod): Returned(file), Returned(Undefined) or TypeError
resolveAsModule(mod) ==
  IF Kind(mod) # "Directory" THEN TypeError
  ELSE IF hasPackage(mod) /\ Kind(entries[mod][PackageJson]) # "Package"
    THEN TypeError
  ELSE IF hasPackage(mod)
          /\ hasFile(mod, ReplaceJs(Main(entries[mod][PackageJson])))
    THEN LET m == Main(entries[mod][PackageJson])
         IN  Returned(IF has(mod, m) THEN entries[mod][m] ELSE Undefined)
  ELSE IF hasFile(mod, IndexName) THEN Returned(entries[mod][WithJs(IndexName)])
  ELSE Returned(Undefined)

\* the directories resolveAsModule(mod) reads
ModuleReads(mod) == IF Kind(mod) = "Directory" THEN {mod} ELSE {}

\* handleRequest with the module directory tried before the file
handleRequestDirFirst(dir, target) ==
  IF ~ has(dir, NodeModulesName)
    THEN [kind |-> "tryNext", reads |-> {dir}]
  ELSE LET nodeModules == entries[dir][NodeModulesName] IN
    IF Kind(nodeModules) # "Directory"
      THEN TypeError @@ [reads |-> {dir}]
    ELSE IF hasDirectory(nodeModules, target)
            /\ resolveAsModule(entries[nodeModules][target]).kind = "returned"
            /\ resolveAsModule(entries[nodeModules][target]).value # Undefined
      THEN resolveAsModule(entries[nodeModules][target])
             @@ [reads |-> {dir, nodeModules}]
    ELSE IF hasFile(nodeModules, target)
      THEN Returned(entries[nodeModules][WithJs(target)])
             @@ [reads |-> {dir, nodeModules}]
    ELSE [kind |-> "tryNext", reads |-> {dir, nodeModules}]

\* handleRequest(target) up to its return, throw or call of tryNext:
\* [kind |-> "returned" | "TypeError" | "tryNext", reads |-> directories read]
handleRequest(dir, target) ==
  IF ~ has(dir, NodeModulesName)
    THEN [kind |-> "tryNext", reads |-> {dir}]
  ELSE LET nodeModules == entries[dir][NodeModulesName] IN
    IF Kind(nodeModules) # "Directory"
      THEN TypeError @@ [reads |-> {dir}]
    ELSE IF hasFile(nodeModules, target)
      THEN Returned(entries[nodeModules][WithJs(target)])
             @@ [reads |-> {dir, nodeModules}]
    ELSE IF hasDirectory(nodeModules, target)
      THEN LET targetModule == entries[nodeModules][target]
               resolved == resolveAsModule(targetModule)
               reads == {dir, nodeModules} \cup ModuleReads(targetModule)
           IN  IF resolved.kind = "TypeError"
                 THEN TypeError @@ [reads |-> reads]
               ELSE IF resolved.value # Undefined
                 THEN resolved @@ [reads |-> reads]
               ELSE [kind |-> "tryNext", reads |-> reads]
    ELSE [kind |-> "tryNext", reads |-> {dir, nodeModules}]

\* tryNext(target): the not-found error at a directory without parent, else
\* the handler moves to the parent and handleRequest runs again
tryNext(dir, target, depth) ==
  IF parent[dir] = None THEN throwNotFound(target)
  ELSE IF depth >= StackLimit THEN RangeError
  ELSE [kind |-> "moved", dir |-> parent[dir]]

\* ------------------------------------- objects of the other examples

\* Iterator: the void of MaybeTreeNode; TreeNodes are numbered from 0
NoNode == -1

\* Iterator: no tree built, no iterator created
NoTree == [root |-> NoNode, nodes |-> <<>>]

NoIter == [root |-> NoNode, cursor |-> NoNode, stack |-> <<>>]

\* Composite: the components of the tests, each under its name
CompFiles == {"file1", "file2"}

CompDirs == {"parentDir", "childDir"}

Components == CompFiles \cup CompDirs

\* Composite: the size a component is constructed with: new File('file1', 10),
\* new File('file2', 2), new Directory(name) with the default size
ConstructedSize(c) ==
  CASE c = "file1" -> 10
    [] c = "file2" -> 2
    [] OTHER -> 4

\* Composite: parent = null
Null == "null"

\* Singleton: Database.instance = null
NoInstance == {}

\* Memento: new File(): name 'Untitled.txt', text '', sizeBytes text.length + 1
NewFileState == [name |-> "Untitled.txt", text |-> <<>>, sizeBytes |-> 1]

\* ------------------------------------------------------------------- Init

Init ==
  /\ commands = <<>>
  /\ size = 0
  /\ value = 0
  /\ log = <<>>
  /\ data = <<>>
  /\ tree = NoTree
  /\ iter = NoIter
  /\ out = <<>>
  /\ compSize = [c \in Components |-> ConstructedSize(c)]
  /\ children = [d \in CompDirs |-> <<>>]
  /\ compParent = [c \in Components |-> Null]
  /\ instance = NoInstance
  /\ created = 0
  /\ got = {}
  /\ state = NewFileState
  /\ mementos = <<>>
  /\ committed = <<>>
  /\ entries = [d \in AllDirs |-> Empty]
  /\ parent = [x \in AllObj |-> None]
  /\ ops = 0
  /\ pc = "idle"
  /\ call = NoCall
  /\ handlerDir = None
  /\ visited = <<>>
  /\ inspected = {}
  /\ result = NoResult

Pristine ==
  /\ ops = 0
  /\ \A d \in AllDirs : entries[d] = Empty
  /\ \A x \in AllObj : parent[x] = None

\* ---------------------------------------------------------------- actions

\* the tree of the 'Chain order' tests, for a package p of the pool:
\* root.add(src.add(requester),
\*          nodeModules.add(targetFile, targetDir.add(main, p, index)))
SetupChainOrder(p) ==
  /\ pc = "idle"
  /\ Pristine
  /\ LET s0 == [entries |-> entries, parent |-> parent]
         s1 == AddAll(s0, "src", <<"requester">>)
         s2 == AddAll(s1, "targetDir", <<"main", p, "index">>)
         s3 == AddAll(s2, "nodeModules", <<"targetFile", "targetDir">>)
         s4 == AddAll(s3, "root", <<"src", "nodeModules">>)
     IN  /\ entries' = s4.entries
         /\ parent' = s4.parent
  /\ UNCHANGED <<ops, pc, call, handlerDir, visited, inspected, result>>
  /\ UNCHANGED <<cmdVars, laterVars>>

\* d.add(...dirents)
Add(d, dirents) ==
  /\ pc = "idle"
  /\ ops < MaxOps
  /\ LET s == AddAll([entries |-> entries, parent |-> parent], d, dirents)
     IN  /\ entries' = s.entries
         /\ parent' = s.parent
  /\ ops' = ops + 1
  /\ pc' = "done"
  /\ call' = [op |-> "add", dir |-> d, dirents |-> dirents]
  /\ result' = Returned(d)
  /\ UNCHANGED <<handlerDir, visited, inspected>>
  /\ UNCHANGED <<cmdVars, laterVars>>

\* d.rm(dName)
Rm(d, dName) ==
  /\ pc = "idle"
  /\ ops < MaxOps
  /\ entries' = [entries EXCEPT ![d] = RmEntries(entries[d], dName)]
  /\ ops' = ops + 1
  /\ pc' = "done"
  /\ call' = [op |-> "rm", dir |-> d, dName |-> dName,
              had |-> IF dName \in DOMAIN entries[d]
                        THEN entries[d][dName] ELSE None]
  /\ result' = Returned(TRUE)
  /\ UNCHANGED <<parent, handlerDir, visited, inspected>>
  /\ UNCHANGED <<cmdVars, laterVars>>

\* request without the check of this.parent: the handler is created with an
\* undefined directory and handleRequest fails reading its entries
RequestNoParentCheck(file, target) ==
  /\ pc = "idle"
  /\ call' = [op |-> "request", file |-> file, target |-> target]
  /\ inspected' = {}
  /\ IF parent[file] = None
       THEN /\ pc' = "done"
            /\ result' = TypeError
            /\ handlerDir' = Undefined
            /\ visited' = <<Undefined>>
       ELSE /\ pc' = "handle"
            /\ handlerDir' = parent[file]
            /\ visited' = <<parent[file]>>
            /\ UNCHANGED result
  /\ UNCHANGED <<entries, parent, ops>>
  /\ UNCHANGED <<cmdVars, laterVars>>

\* a request that starts one directory above the file's parent
RequestSkipsParent(file, target) ==
  /\ pc = "idle"
  /\ call' = [op |-> "request", file |-> file, target |-> target]
  /\ inspected' = {}
  /\ IF parent[file] = None
       THEN /\ pc' = "done"
            /\ result' = throwNotFound(target)
            /\ UNCHANGED <<handlerDir, visited>>
       ELSE LET start == IF parent[parent[file]] = None THEN parent[file]
                         ELSE parent[parent[file]]
            IN  /\ pc' = "handle"
                /\ handlerDir' = start
                /\ visited' = <<start>>
                /\ UNCHANGED result
  /\ UNCHANGED <<entries, parent, ops>>
  /\ UNCHANGED <<cmdVars, laterVars>>

\* file.request(target), up to the first handleRequest
Request(file, target) ==
  /\ pc = "idle"
  /\ call' = [op |-> "request", file |-> file, target |-> target]
  /\ inspected' = {}
  /\ IF parent[file] = None
       THEN /\ pc' = "done"
            /\ result' = throwNotFound(target)
            /\ UNCHANGED <<handlerDir, visited>>
       ELSE /\ pc' = "handle"
            /\ handlerDir' = parent[file]
            /\ visited' = <<parent[file]>>
            /\ UNCHANGED result
  /\ UNCHANGED <<entries, parent, ops>>
  /\ UNCHANGED <<cmdVars, laterVars>>

\* one handleRequest of the walk, with the tryNext it may end in
HandleRequest ==
  /\ pc = "handle"
  /\ LET h == handleRequest(handlerDir, call.target)
         n == tryNext(handlerDir, call.target, Len(visited))
     IN  /\ inspected' = inspected \cup h.reads
         /\ IF h.kind = "returned"
              THEN /\ result' = Returned(h.value)
                   /\ pc' = "done"
                   /\ UNCHANGED <<handlerDir, visited>>
            ELSE IF h.kind = "TypeError"
              THEN /\ result' = TypeError
                   /\ pc' = "done"
                   /\ UNCHANGED <<handlerDir, visited>>
            ELSE IF n.kind = "moved"
              THEN /\ handlerDir' = n.dir
                   /\ visited' = Append(visited, n.dir)
                   /\ UNCHANGED <<pc, result>>
            ELSE /\ result' = n
                 /\ pc' = "done"
                 /\ UNCHANGED <<handlerDir, visited>>
  /\ UNCHANGED <<entries, parent, ops, call>>
  /\ UNCHANGED <<cmdVars, laterVars>>

\* the call's outcome reaches the caller
Return ==
  /\ pc = "done"
  /\ pc' = "idle"
  /\ call' = NoCall
  /\ handlerDir' = None
  /\ visited' = <<>>
  /\ inspected' = {}
  /\ result' = NoResult
  /\ UNCHANGED <<entries, parent, ops>>
  /\ UNCHANGED <<cmdVars, laterVars>>

AllNames == {DName(x) : x \in Obj}

Next ==
  \/ \E p \in Packages : SetupChainOrder(p)
  \/ \E d \in Dirs, x \in Obj : Add(d, <<x>>)
  \/ \E d \in Dirs, n \in AllNames : Rm(d, n)
  \/ \E f \in Files, t \in Targets : Request(f, t)
  \/ HandleRequest
  \/ Return

Spec == Init /\ [][Next]_vars

\* ------------------------------------------- the tree operations on their own

\* a File whose add fails only after setting the dirent's parent
FileAddAttaches(file, dirents) ==
  /\ pc = "idle"
  /\ ops < MaxOps
  /\ ops' = ops + 1
  /\ pc' = "done"
  /\ call' = [op |-> "fileAdd", file |-> file, dirents |-> dirents]
  /\ result' = TypeError
  /\ parent' = [parent EXCEPT ![dirents[1]] = file]
  /\ UNCHANGED <<entries, handlerDir, visited, inspected>>
  /\ UNCHANGED <<cmdVars, laterVars>>

\* file.add(...dirents): File declares no add, the call is a TypeError
\* ("file.add is not a function")
FileAdd(file, dirents) ==
  /\ pc = "idle"
  /\ ops < MaxOps
  /\ ops' = ops + 1
  /\ pc' = "done"
  /\ call' = [op |-> "fileAdd", file |-> file, dirents |-> dirents]
  /\ result' = TypeError
  /\ UNCHANGED <<entries, parent, handlerDir, visited, inspected>>
  /\ UNCHANGED <<cmdVars, laterVars>>

\* file.rm(dName): File declares no rm either
FileRm(file, dName) ==
  /\ pc = "idle"
  /\ ops < MaxOps
  /\ ops' = ops + 1
  /\ pc' = "done"
  /\ call' = [op |-> "fileRm", file |-> file, dName |-> dName]
  /\ result' = TypeError
  /\ UNCHANGED <<entries, parent, handlerDir, visited, inspected>>
  /\ UNCHANGED <<cmdVars, laterVars>>

\* the directories the tree operations are called on, and the dirents handed
\* to them: two of one name (a Directory and a File called 'target'), a
\* Package, and the Directory called 'constructor'
TreeDirs == {"root", "src"}

TreeDirents ==
  {"src", "nodeModules", "targetDir", "targetLeaf", "targetFile", "pkg",
   "constructorDir"}

TreeFiles == {"targetFile", "pkg"}

\* the argument lists of add: one dirent, or two dirents of the same name
\* (the case where the order of the arguments shows)
DirentLists ==
  {<<x>> : x \in TreeDirents}
    \cup {xs \in {<<x, y>> : x \in TreeDirents, y \in TreeDirents} :
             xs[1] # xs[2] /\ DName(xs[1]) = DName(xs[2])}

TreeNames == {DName(x) : x \in TreeDirents}

NextTree ==
  \/ \E p \in Packages : SetupChainOrder(p)
  \/ \E d \in TreeDirs, xs \in DirentLists : Add(d, xs)
  \/ \E d \in TreeDirs, n \in TreeNames : Rm(d, n)
  \/ \E f \in TreeFiles, x \in TreeDirents : FileAdd(f, <<x>>)
  \/ \E f \in TreeFiles, n \in TreeNames : FileRm(f, n)
  \/ Return

SpecTree == Init /\ [][NextTree]_vars

\* ======================================================== ChainResp claims

\* a request has ended
RequestDone == pc = "done" /\ call.op = "request"

\* the directories above a file, nearest first, following the parent
\* back-references and stopping at a directory without parent or at a repeat
RECURSIVE ChainFrom(_, _)
ChainFrom(d, seen) ==
  IF d = None \/ d \in seen THEN <<>>
  ELSE <<d>> \o ChainFrom(parent[d], seen \cup {d})

Chain(file) == ChainFrom(parent[file], {})

\* the chain ends at a root (the parent back-references form no cycle)
Rooted(file) ==
  LET c == Chain(file) IN c = <<>> \/ parent[c[Len(c)]] = None

\* the first position of sequence c that satisfies P, 0 when none does
First(c, P(_)) ==
  LET at == {i \in 1..Len(c) : P(c[i])}
  IN  IF at = {} THEN 0 ELSE CHOOSE k \in at : \A j \in at : k <= j

HasNodeModules(d) == NodeModulesName \in DOMAIN entries[d]

\* the node_modules child of the nearest ancestor that has one, else None
NearestNodeModules(file) ==
  LET c == Chain(file)
      i == First(c, HasNodeModules)
  IN  IF i = 0 THEN None ELSE entries[c[i]][NodeModulesName]

\* C1: a request whose nearest node_modules holds <target>.js returns that
\* entry, whether or not a directory <target> that resolves lies beside it.
C1_FilePrecedence ==
  RequestDone =>
    LET nm == NearestNodeModules(call.file)
        k == call.target \o <<JS>>
    IN  (nm \in Dirs /\ k \in DOMAIN entries[nm])
          => result = [kind |-> "returned", value |-> entries[nm][k]]

\* C1 witness: the request returned target.js from a node_modules that also
\* holds the module directory target with its index.js.
C1_Witness ==
  /\ RequestDone
  /\ call.target = <<"target">>
  /\ LET nm == NearestNodeModules(call.file)
     IN  /\ nm \in Dirs
         /\ <<"target", JS>> \in DOMAIN entries[nm]
         /\ <<"target">> \in DOMAIN entries[nm]
         /\ entries[nm][<<"target">>] = "targetDir"
         /\ <<"index", JS>> \in DOMAIN entries["targetDir"]
         /\ result = [kind |-> "returned", value |-> "targetFile"]

\* a name with its ".js" suffix stripped
StripJs(s) ==
  IF Len(s) > 0 /\ s[Len(s)] = JS THEN SubSeq(s, 1, Len(s) - 1) ELSE s

Nothing == "nothing"

\* the module directory <target> of a level: the node_modules child of d is
\* a directory that holds no <target>.js and a directory named <target>
ModuleAt(d, target) ==
  IF ~ HasNodeModules(d) THEN None
  ELSE LET nm == entries[d][NodeModulesName] IN
    IF /\ nm \in Dirs
       /\ (target \o <<JS>>) \notin DOMAIN entries[nm]
       /\ target \in DOMAIN entries[nm]
       /\ entries[nm][target] \in AllDirs
      THEN entries[nm][target]
    ELSE None

\* the file the package descriptor of mod names: its main value, suffix
\* stripped, is the name of a file of mod; Nothing without such a file
MainFile(mod) ==
  IF PackageJson \notin DOMAIN entries[mod] THEN Nothing
  ELSE LET p == entries[mod][PackageJson] IN
    IF p \notin Packages THEN Nothing
    ELSE LET k == StripJs(Main(p)) \o <<JS>> IN
      IF k \in DOMAIN entries[mod] /\ entries[mod][k] \in Files
        THEN entries[mod][k]
      ELSE Nothing

IndexFile(mod) ==
  LET k == <<"index", JS>> IN
  IF k \in DOMAIN entries[mod] /\ entries[mod][k] \in Files
    THEN entries[mod][k]
  ELSE Nothing

\* the per-level steps as the specification words them: the file, else the
\* module directory by its package main, else by its index
LevelSteps(d, target) ==
  IF ~ HasNodeModules(d) THEN Nothing
  ELSE LET nm == entries[d][NodeModulesName]
           k == target \o <<JS>>
       IN  IF nm \notin Dirs THEN Nothing
           ELSE IF k \in DOMAIN entries[nm] /\ entries[nm][k] \in Files
             THEN entries[nm][k]
           ELSE IF ModuleAt(d, target) = None THEN Nothing
           ELSE IF MainFile(ModuleAt(d, target)) # Nothing
             THEN MainFile(ModuleAt(d, target))
           ELSE IndexFile(ModuleAt(d, target))

\* C2: an entry a request returns is what the per-level steps give at the
\* closest ancestor where they succeed, and the walk ends at that ancestor.
C2_NearestMatchWins ==
  (RequestDone /\ result.kind = "returned") =>
    LET c == Chain(call.file)
        i == First(c, LAMBDA d : LevelSteps(d, call.target) # Nothing)
    IN  /\ i # 0
        /\ result.value = LevelSteps(c[i], call.target)
        /\ handlerDir = c[i]

\* the first level the walk took whose module directory satisfies P
FirstModule(P(_)) ==
  First(visited, LAMBDA d : /\ ModuleAt(d, call.target) # None
                            /\ P(ModuleAt(d, call.target)))

\* C3: when the module directory the walk reaches has a package descriptor
\* whose main, suffix stripped, names a file of that directory, the request
\* returns that file.
C3_PackageMain ==
  RequestDone =>
    LET i == FirstModule(LAMBDA mod : MainFile(mod) # Nothing)
    IN  i # 0 =>
          result = [kind |-> "returned",
                    value |-> MainFile(ModuleAt(visited[i], call.target))]

\* C4: when the module directory the walk reaches holds index.js, the request
\* returns index.js unless it returns the file the package descriptor names.
C4_IndexFallback ==
  RequestDone =>
    LET i == FirstModule(LAMBDA mod : IndexFile(mod) # Nothing)
    IN  i # 0 =>
          LET mod == ModuleAt(visited[i], call.target)
          IN  /\ result.kind = "returned"
              /\ result.value \in {IndexFile(mod), MainFile(mod)}

\* no directory from the file's parent up to the root has a node_modules child
NoNodeModulesAbove(file) ==
  /\ Rooted(file)
  /\ \A i \in 1..Len(Chain(file)) : ~ HasNodeModules(Chain(file)[i])

\* C5: without a node_modules child anywhere from the file's parent up to the
\* root, the request raises the not-found error, which names the target.
C5_NotFound ==
  (RequestDone /\ NoNodeModulesAbove(call.file)) =>
    /\ result.kind = "ReferenceError"
    /\ result.target = call.target

\* C5 witness: a request from a file two directories below the root, none of
\* them with a node_modules child, ended with the not-found error.
C5_Witness ==
  /\ RequestDone
  /\ NoNodeModulesAbove(call.file)
  /\ Len(Chain(call.file)) >= 2
  /\ visited = Chain(call.file)
  /\ result = [kind |-> "ReferenceError", target |-> call.target]

\* C6: a request from a file without parent raises the not-found error with
\* no handler created and no directory read.
C6_Detached ==
  (call.op = "request" /\ parent[call.file] = None) =>
    /\ pc = "done"
    /\ result = [kind |-> "ReferenceError", target |-> call.target]
    /\ handlerDir = None
    /\ visited = <<>>
    /\ inspected = {}

\* C6 witness: the request of a detached file has ended, in a tree where a
\* node_modules that holds the target's file exists.
C6_Witness ==
  /\ RequestDone
  /\ parent[call.file] = None
  /\ result.kind = "ReferenceError"
  /\ \E d \in Dirs : /\ HasNodeModules(d)
                     /\ entries[d][NodeModulesName] \in Dirs
                     /\ (call.target \o <<JS>>)
                          \in DOMAIN entries[entries[d][NodeModulesName]]

\* C7: a request ends with a returned File or with the not-found error.
C7_TerminalOutcomes ==
  RequestDone =>
    \/ result.kind = "returned" /\ result.value \in Files
    \/ result.kind = "ReferenceError"

\* the directories reachable from the file along the parent back-references
Ancestors(file) == {Chain(file)[i] : i \in 1..Len(Chain(file))}

\* C8: a request takes at most one handleRequest round per ancestor directory
\* and ends with a returned file or the not-found error, never by exhausting
\* the call stack.
C8_Termination ==
  call.op = "request" =>
    /\ Len(visited) <= Cardinality(Ancestors(call.file))
    /\ result.kind # "RangeError"

\* C9: the handler's directory only moves to the parent of its previous value
\* and takes no directory twice.
C9_UpwardOnly ==
  call.op = "request" =>
    /\ \A i \in 2..Len(visited) : visited[i] = parent[visited[i - 1]]
    /\ \A i, j \in 1..Len(visited) : visited[i] = visited[j] => i = j

\* an add has just returned
AddDone == pc = "done" /\ call.op = "add"

AddedEntries == {call.dirents[i] : i \in 1..Len(call.dirents)}

\* C10 as stated: after dir.add(x), x.parent is dir and the predicate of x's
\* variant, called with x's name, is true.
C10_AddPostconditionAsStated ==
  AddDone =>
    \A x \in AddedEntries :
      /\ parent[x] = call.dir
      /\ x \in Dirs => hasDirectory(call.dir, DName(x))
      /\ x \in PlainFiles => hasFile(call.dir, DName(x))

\* the name ends in ".js"
EndsInJs(s) == Len(s) > 0 /\ s[Len(s)] = JS

\* C10 amended: after dir.add(x), x.parent is dir, hasDirectory(x.name) is
\* true for a Directory x, and for a File x named n.js hasFile(n) is true.
C10_AddPostcondition ==
  AddDone =>
    \A x \in AddedEntries :
      /\ parent[x] = call.dir
      /\ x \in Dirs => hasDirectory(call.dir, DName(x))
      /\ (x \in Files /\ EndsInJs(DName(x)))
           => hasFile(call.dir, StripJs(DName(x)))

\* C10 witness: a File named n.js and a Directory have each just been added.
C10_Witness ==
  /\ AddDone
  /\ \E x \in AddedEntries :
       /\ x \in PlainFiles
       /\ EndsInJs(DName(x))
       /\ parent[x] = call.dir
       /\ hasFile(call.dir, StripJs(DName(x)))
       /\ \E y \in Dirs : /\ parent[y] = call.dir
                          /\ hasDirectory(call.dir, DName(y))

\* ------------------------------------------------------------ rm, add, File

RmDone == pc = "done" /\ call.op = "rm"

\* C11: after dir.rm(x.dName) of an entry x that dir held, x.parent is unset.
C11_RmClearsParent ==
  (RmDone /\ call.had # None) => parent[call.had] = None

\* C12: dir.rm(name) never raises and returns true exactly when a child keyed
\* by name was present before the call.
C12_RmReturnValue ==
  RmDone =>
    /\ result.kind = "returned"
    /\ (result.value = TRUE) <=> (call.had # None)

\* the existence predicate for x, asked of directory d
Visible(d, x) ==
  CASE Kind(x) = "Directory" -> hasDirectory(d, DName(x))
    [] Kind(x) = "Package"   -> hasPackage(d)
    [] OTHER -> /\ EndsInJs(DName(x))
                /\ hasFile(d, StripJs(DName(x)))

\* C13: after dir.rm(x.dName) of an entry x that dir held, the existence
\* predicate for x is false on dir.
C13_RemovedInvisible ==
  (RmDone /\ call.had # None) => ~Visible(call.dir, call.had)

FileCall == {"fileAdd", "fileRm"}

Owners(x) ==
  {d \in AllDirs : \E n \in DOMAIN entries[d] : entries[d][n] = x}

\* C15: every entry held in a directory d's entries has parent d.
C15_ChildParent ==
  \A d \in AllDirs : \A n \in DOMAIN entries[d] : parent[entries[d][n]] = d

\* C16: each entry is held in the entries of at most one directory.
C16_SingleOwner ==
  \A x \in AllObj : Cardinality(Owners(x)) <= 1

\* the last position of name n in the argument list xs (0 if none)
LastIndex(xs, n) ==
  LET at == {i \in 1..Len(xs) : DName(xs[i]) = n}
  IN  IF at = {} THEN 0 ELSE CHOOSE i \in at : \A j \in at : j <= i

\* C17: dir.add(e1, ..., en) returns dir; afterwards each name among the given
\* entries maps to the last given entry of that name, and the children of
\* other names are unchanged.
C17_AddSemantics ==
  [][(pc = "idle" /\ pc' = "done" /\ call'.op = "add")
       => LET d  == call'.dir
              xs == call'.dirents
          IN  /\ result' = Returned(d)
              /\ \A n \in DOMAIN entries[d] \cup DOMAIN entries'[d]
                        \cup {DName(xs[i]) : i \in 1..Len(xs)} :
                    IF LastIndex(xs, n) # 0
                      THEN /\ n \in DOMAIN entries'[d]
                           /\ entries'[d][n] = xs[LastIndex(xs, n)]
                      ELSE /\ n \in DOMAIN entries[d]
                           /\ n \in DOMAIN entries'[d]
                           /\ entries'[d][n] = entries[d][n]]_vars

\* C17 witness: two dirents of one name have just been added to a directory
\* that holds a child of another name; the second of the two is stored.
C17_Witness ==
  /\ AddDone
  /\ Len(call.dirents) = 2
  /\ DName(call.dirents[1]) = DName(call.dirents[2])
  /\ call.dirents[1] # call.dirents[2]
  /\ entries[call.dir][DName(call.dirents[1])] = call.dirents[2]
  /\ result = Returned(call.dir)
  /\ Cardinality(DOMAIN entries[call.dir]) >= 2

\* C18: dir.rm(name) changes nothing but the mapping of name in dir: the
\* other children of dir stay, no child appears, and the entries of the other
\* directories and all parents are unchanged.
C18_RmFrame ==
  [][(pc = "idle" /\ pc' = "done" /\ call'.op = "rm")
       => LET d == call'.dir
              n == call'.dName
          IN  /\ DOMAIN entries'[d] = DOMAIN entries[d] \ {n}
              /\ \A m \in DOMAIN entries'[d] : entries'[d][m] = entries[d][m]
              /\ \A e \in AllDirs \ {d} : entries'[e] = entries[e]
              /\ parent' = parent]_vars

\* C18 witness: a present child has just been removed from a directory that
\* keeps another child, while another directory holds entries too.
C18_Witness ==
  /\ RmDone
  /\ call.had # None
  /\ call.dName \notin DOMAIN entries[call.dir]
  /\ entries[call.dir] # Empty
  /\ \E e \in AllDirs \ {call.dir} : entries[e] # Empty

\* ------------------------------------------------------ the Command example

\* calls made on one stack or one app
MaxCalls == 7

\* the values handed to add and subtract
Values == {3, 4}

\* new CalculatorApp(initialValue)
InitialValues == {0, 4}

\* new Plus(receiver, value), new Minus(receiver, value): the one receiver is
\* the app's CalcComputer
Plus(v) == [operation |-> "add", value |-> v]

Minus(v) == [operation |-> "subtract", value |-> v]

\* the commands handed to a stack used on its own
StackCommands == {Plus(3), Minus(4)}

\* the Operation of a command: function add(x, y), function subtract(x, y)
Operate(operation, x, y) == IF operation = "add" THEN x + y ELSE x - y

\* a value of type Command | void: {cmd} for a command, {} for undefined
NoCommand == {}

\* if (x): every command object is truthy, undefined is not
Truthy(x) == x # NoCommand

\* CommandStack.isEmpty
isEmpty == size = 0

\* CommandStack.append: this.commands[this.size++] = cmd (index size, counted
\* from 0, is position size + 1 here)
append(cmd) ==
  IF size + 1 <= Len(commands)
    THEN [commands EXCEPT ![size + 1] = cmd]
    ELSE Append(commands, cmd)

\* peek that reads the first slot of the array
peekFirstIn == IF ~isEmpty THEN {commands[1]} ELSE NoCommand

\* CommandStack.peek
peek == IF ~isEmpty THEN {commands[size]} ELSE NoCommand

\* CommandStack.pop: the size afterwards and the value returned
pop ==
  LET lastIn == peek
  IN  IF Truthy(lastIn)
        THEN [size |-> size - 1, returns |-> lastIn]
        ELSE [size |-> size, returns |-> NoCommand]

\* executeCommand that runs the last command and leaves it on the stack
executeCommandKeep ==
  LET command == peek
  IN  IF ~Truthy(command)
        THEN [size |-> size, value |-> value, threw |-> TRUE,
              executed |-> NoCommand]
        ELSE [size |-> size,
              value |-> LET c == CHOOSE x \in command : TRUE
                        IN  Operate(c.operation, value, c.value),
              threw |-> FALSE,
              executed |-> command]

\* Calculator.executeCommand, with command.execute() and CalcComputer.action
\* carried out: the size and the receiver's value afterwards, whether it
\* threw, and the command whose execute was called
executeCommand ==
  LET p == pop
      command == p.returns
  IN  IF ~Truthy(command)
        THEN [size |-> p.size, value |-> value, threw |-> TRUE,
              executed |-> NoCommand]
        ELSE [size |-> p.size,
              value |-> LET c == CHOOSE x \in command : TRUE
                        IN  Operate(c.operation, value, c.value),
              threw |-> FALSE,
              executed |-> command]

\* stack.append(cmd)
StackAppend(cmd) ==
  /\ pc = "idle"
  /\ ops < MaxCalls
  /\ ops' = ops + 1
  /\ pc' = "done"
  /\ commands' = append(cmd)
  /\ size' = size + 1
  /\ call' = [op |-> "append", cmd |-> cmd]
  /\ result' = Returned(size + 1)
  /\ log' = Append(log, [ev |-> "append", cmd |-> cmd])
  /\ UNCHANGED value
  /\ UNCHANGED <<treeVars, laterVars>>

\* stack.pop()
StackPop ==
  /\ pc = "idle"
  /\ ops < MaxCalls
  /\ ops' = ops + 1
  /\ pc' = "done"
  /\ size' = pop.size
  /\ call' = [op |-> "pop"]
  /\ result' = Returned(pop.returns)
  /\ log' = Append(log, [ev |-> "pop", cmd |-> pop.returns])
  /\ UNCHANGED <<commands, value>>
  /\ UNCHANGED <<treeVars, laterVars>>

\* stack.isEmpty()
StackIsEmpty ==
  /\ pc = "idle"
  /\ ops < MaxCalls
  /\ ops' = ops + 1
  /\ pc' = "done"
  /\ call' = [op |-> "isEmpty"]
  /\ result' = Returned(isEmpty)
  /\ UNCHANGED cmdVars
  /\ UNCHANGED <<treeVars, laterVars>>

NextStack ==
  \/ \E cmd \in StackCommands : StackAppend(cmd)
  \/ StackPop
  \/ StackIsEmpty
  \/ Return

SpecStack == Init /\ [][NextStack]_vars

\* new CalculatorApp(initialValue)
NewApp(initialValue) ==
  /\ pc = "idle"
  /\ log = <<>>
  /\ value' = initialValue
  /\ log' = <<[ev |-> "new", value |-> initialValue]>>
  /\ UNCHANGED <<commands, size, ops, pc, call, result>>
  /\ UNCHANGED <<treeVars, laterVars>>

\* app.add(v): setCommand(new Plus(receiver, v)), return this
AppAdd(v) ==
  /\ pc = "idle"
  /\ log # <<>>
  /\ ops < MaxCalls
  /\ ops' = ops + 1
  /\ pc' = "done"
  /\ commands' = append(Plus(v))
  /\ size' = size + 1
  /\ call' = [op |-> "add", value |-> v]
  /\ result' = Returned("app")
  /\ log' = Append(log, [ev |-> "add", value |-> v])
  /\ UNCHANGED value
  /\ UNCHANGED <<treeVars, laterVars>>

\* app.subtract(v): setCommand(new Minus(receiver, v)), return this
AppSubtract(v) ==
  /\ pc = "idle"
  /\ log # <<>>
  /\ ops < MaxCalls
  /\ ops' = ops + 1
  /\ pc' = "done"
  /\ commands' = append(Minus(v))
  /\ size' = size + 1
  /\ call' = [op |-> "subtract", value |-> v]
  /\ result' = Returned("app")
  /\ log' = Append(log, [ev |-> "subtract", value |-> v])
  /\ UNCHANGED value
  /\ UNCHANGED <<treeVars, laterVars>>

\* app.equals(): executeCommand inside try/catch, then display()
AppEquals ==
  /\ pc = "idle"
  /\ log # <<>>
  /\ ops < MaxCalls
  /\ ops' = ops + 1
  /\ pc' = "done"
  /\ LET e == executeCommand
     IN  /\ size' = e.size
         /\ value' = e.value
         /\ result' = Returned(e.value)
         /\ log' = Append(log, [ev |-> "equals", value |-> e.value])
  /\ call' = [op |-> "equals"]
  /\ UNCHANGED commands
  /\ UNCHANGED <<treeVars, laterVars>>

NextCalc ==
  \/ \E v \in InitialValues : NewApp(v)
  \/ \E v \in Values : AppAdd(v)
  \/ \E v \in Values : AppSubtract(v)
  \/ AppEquals
  \/ Return

SpecCalc == Init /\ [][NextCalc]_vars

\* ------------------------------------------------- CommandStack, Calculator

Front(l) == SubSeq(l, 1, Len(l) - 1)

Last(l) == l[Len(l)]

\* s without the last occurrence of c
RemoveLast(s, c) ==
  LET at == {i \in 1..Len(s) : s[i] = c}
  IN  IF at = {} THEN s
      ELSE LET i == CHOOSE k \in at : \A j \in at : j <= k
           IN  SubSeq(s, 1, i - 1) \o SubSeq(s, i + 1, Len(s))

\* the commands appended and not yet popped after the calls of l, oldest
\* first: an append adds its command, a pop that returned a command takes
\* that command away
RECURSIVE Unpopped(_)
Unpopped(l) ==
  IF l = <<>> THEN <<>>
  ELSE LET e == Last(l)
           before == Unpopped(Front(l))
       IN  CASE e.ev = "append" -> Append(before, e.cmd)
             [] e.ev = "pop" /\ e.cmd # NoCommand ->
                  RemoveLast(before, CHOOSE c \in e.cmd : TRUE)
             [] OTHER -> before

Appends(l) == Cardinality({i \in 1..Len(l) : l[i].ev = "append"})

ReturningPops(l) ==
  Cardinality({i \in 1..Len(l) : l[i].ev = "pop" /\ l[i].cmd # NoCommand})

\* C19: pop returns the most recently appended command not yet popped, and
\* nothing when there is none; isEmpty() is true exactly when the appends
\* are as many as the pops that returned a command.
C19_Lifo ==
  /\ (pc = "done" /\ call.op = "pop")
       => LET before == Unpopped(Front(log))
          IN  result = Returned(IF before = <<>> THEN NoCommand
                                ELSE {Last(before)})
  /\ (pc = "done" /\ call.op = "isEmpty")
       => result = Returned(Appends(log) = ReturningPops(log))
  /\ isEmpty <=> Appends(log) = ReturningPops(log)

\* C19 witness: after an earlier pop that returned a command, a pop has just
\* returned the later of two different commands still on the stack.
C19_Witness ==
  /\ pc = "done"
  /\ call.op = "pop"
  /\ ReturningPops(Front(log)) >= 1
  /\ LET before == Unpopped(Front(log))
     IN  /\ Len(before) >= 2
         /\ before[Len(before) - 1] # Last(before)
         /\ result = Returned({Last(before)})

\* the commands added and not yet run after the calls of l, oldest first
RECURSIVE PendingCmds(_)
PendingCmds(l) ==
  IF l = <<>> THEN <<>>
  ELSE LET e == Last(l)
           before == PendingCmds(Front(l))
       IN  CASE e.ev \in {"add", "subtract"} -> Append(before, e)
             [] e.ev = "equals" ->
                  IF before = <<>> THEN <<>> ELSE Front(before)
             [] OTHER -> before

\* what running command c does to the value x
Run(c, x) == IF c.ev = "add" THEN x + c.value ELSE x - c.value

\* the receiver's value after the calls of l when each equals runs exactly
\* the most recently added command that has not run
RECURSIVE Shown(_)
Shown(l) ==
  IF l = <<>> THEN 0
  ELSE LET e == Last(l)
           f == Front(l)
       IN  CASE e.ev = "new" -> e.value
             [] e.ev = "equals" ->
                  IF PendingCmds(f) = <<>> THEN Shown(f)
                  ELSE Run(Last(PendingCmds(f)), Shown(f))
             [] OTHER -> Shown(f)

\* new CalculatorApp(0); app.subtract(3).add(4).add(3)
DelayedExecution ==
  <<[ev |-> "new", value |-> 0], [ev |-> "subtract", value |-> 3],
    [ev |-> "add", value |-> 4], [ev |-> "add", value |-> 3]>>

DelayedResults == <<3, 7, 4, 4>>

\* C20: each equals() runs exactly one pending command, the most recently
\* added one that has not run, and returns the receiver's value after it;
\* with none pending it returns the value unchanged. After
\* subtract(3).add(4).add(3) from 0 the results are 3, 7, 4, 4.
C20_DelayedExecution ==
  /\ (pc = "done" /\ call.op = "equals")
       => /\ result = Returned(Shown(log))
          /\ value = Shown(log)
          /\ size = Len(PendingCmds(log))
  /\ (Len(log) > 4 /\ SubSeq(log, 1, 4) = DelayedExecution)
       => \A i \in 5..Len(log) :
            (i <= 8 /\ \A j \in 5..i : log[j].ev = "equals")
              => log[i].value = DelayedResults[i - 4]

\* C20 witness: the fourth equals() after subtract(3).add(4).add(3) from 0
\* has just returned, the four results being 3, 7, 4, 4.
C20_Witness ==
  /\ pc = "done"
  /\ call.op = "equals"
  /\ log = DelayedExecution
             \o [i \in 1..4 |-> [ev |-> "equals", value |-> DelayedResults[i]]]
  /\ result = Returned(4)

\* ------------------------------------------------------ Calculator (Invoker)

\* throw Error(msg) of executeCommand
NeedsCommand ==
  [kind |-> "Error",
   message |-> "Invoker needs a command to execute. Set a command first."]

\* setCommand that returns the size before the append
SetCommandSizeBefore(cmd) ==
  /\ pc = "idle"
  /\ ops < MaxCalls
  /\ ops' = ops + 1
  /\ pc' = "done"
  /\ commands' = append(cmd)
  /\ size' = size + 1
  /\ call' = [op |-> "setCommand", cmd |-> cmd]
  /\ result' = Returned(size)
  /\ log' = Append(log, [ev |-> "setCommand", cmd |-> {cmd}])
  /\ UNCHANGED value
  /\ UNCHANGED <<treeVars, laterVars>>

\* calc.setCommand(cmd): return this.commandStack.append(cmd)
SetCommand(cmd) ==
  /\ pc = "idle"
  /\ ops < MaxCalls
  /\ ops' = ops + 1
  /\ pc' = "done"
  /\ commands' = append(cmd)
  /\ size' = size + 1
  /\ call' = [op |-> "setCommand", cmd |-> cmd]
  /\ result' = Returned(size + 1)
  /\ log' = Append(log, [ev |-> "setCommand", cmd |-> {cmd}])
  /\ UNCHANGED value
  /\ UNCHANGED <<treeVars, laterVars>>

\* calc.executeCommand()
ExecuteCommand ==
  /\ pc = "idle"
  /\ ops < MaxCalls
  /\ ops' = ops + 1
  /\ pc' = "done"
  /\ LET e == executeCommand
     IN  /\ size' = e.size
         /\ value' = e.value
         /\ result' = IF e.threw THEN NeedsCommand ELSE Returned(Undefined)
         /\ log' = Append(log, [ev |-> "executeCommand", cmd |-> e.executed])
  /\ call' = [op |-> "executeCommand"]
  /\ UNCHANGED commands
  /\ UNCHANGED <<treeVars, laterVars>>

NextInvoker ==
  \/ \E cmd \in StackCommands : SetCommand(cmd)
  \/ ExecuteCommand
  \/ Return

SpecInvoker == Init /\ [][NextInvoker]_vars

\* the commands set in the calls of l
SetCount(l) == Cardinality({i \in 1..Len(l) : l[i].ev = "setCommand"})

\* the calls of l that called a command's execute
ExecutedCount(l) ==
  Cardinality({i \in 1..Len(l) :
                 l[i].ev = "executeCommand" /\ l[i].cmd # NoCommand})

\* C21: setCommand returns the number of commands pending after it (set
\* minus executed); executeCommand raises 'Invoker needs a command to
\* execute' exactly when none is pending, and then calls no execute.
C21_Invoker ==
  /\ (pc = "done" /\ call.op = "setCommand")
       => result = Returned(SetCount(log) - ExecutedCount(log))
  /\ (pc = "done" /\ call.op = "executeCommand")
       => LET before == Front(log)
              pending == SetCount(before) - ExecutedCount(before)
          IN  /\ (result = NeedsCommand) <=> (pending = 0)
              /\ result # NeedsCommand => result.kind = "returned"
              /\ (pending = 0) => Last(log).cmd = NoCommand
              /\ (pending > 0) => Last(log).cmd # NoCommand

\* C21 witness: after commands were set and all of them executed, an
\* executeCommand has just raised the error without running anything.
C21_Witness ==
  /\ pc = "done"
  /\ call.op = "executeCommand"
  /\ result = NeedsCommand
  /\ ExecutedCount(log) >= 2
  /\ SetCount(log) = ExecutedCount(log)
  /\ Last(log).cmd = NoCommand

\* ------------------------------------------- requests over two levels

\* the tree of the 'Chain order' tests with a second node_modules beside the
\* requester that holds an empty module directory 'target':
\* root.add(src.add(requester, nodeModules2.add(targetDir2)),
\*          nodeModules.add(targetFile, targetDir.add(main, p, index)))
SetupTwoLevels(p) ==
  /\ pc = "idle"
  /\ Pristine
  /\ LET s0 == [entries |-> entries, parent |-> parent]
         s1 == AddAll(s0, "nodeModules2", <<"targetDir2">>)
         s2 == AddAll(s1, "src", <<"requester", "nodeModules2">>)
         s3 == AddAll(s2, "targetDir", <<"main", p, "index">>)
         s4 == AddAll(s3, "nodeModules", <<"targetFile", "targetDir">>)
         s5 == AddAll(s4, "root", <<"src", "nodeModules">>)
     IN  /\ entries' = s5.entries
         /\ parent' = s5.parent
  /\ UNCHANGED <<ops, pc, call, handlerDir, visited, inspected, result>>
  /\ UNCHANGED <<cmdVars, laterVars>>

\* the directories changed, the dirents added and the files that request in
\* the two-level tree
WalkDirs == {"src", "nodeModules", "targetDir", "targetDir2"}

WalkDirents == {"targetFile", "targetLeaf", "index", "root"}

WalkFiles == {"requester", "main"}

WalkNames == {DName(x) : x \in {"targetFile", "targetDir", "main", "index",
                                 "pkg", "nodeModules"}}

NextWalk ==
  \/ \E p \in Packages : SetupTwoLevels(p)
  \/ \E d \in WalkDirs, x \in WalkDirents : Add(d, <<x>>)
  \/ \E d \in WalkDirs, n \in WalkNames : Rm(d, n)
  \/ \E f \in WalkFiles, t \in Targets : Request(f, t)
  \/ HandleRequest
  \/ Return

SpecWalk == Init /\ [][NextWalk]_vars

\* C27: when the nearest node_modules holds a directory <target> that
\* resolves to nothing and no <target>.js, the request returns what the
\* per-level steps give at the first farther ancestor where they succeed,
\* and raises the not-found error when they succeed at none.
C27_FallThrough ==
  RequestDone =>
    LET c == Chain(call.file)
        t == call.target
        i == First(c, HasNodeModules)
    IN  (/\ i # 0
         /\ ModuleAt(c[i], t) # None
         /\ MainFile(ModuleAt(c[i], t)) = Nothing
         /\ IndexFile(ModuleAt(c[i], t)) = Nothing)
          => LET rest == SubSeq(c, i + 1, Len(c))
                 j == First(rest, LAMBDA d : LevelSteps(d, t) # Nothing)
             IN  IF j # 0
                   THEN result = Returned(LevelSteps(rest[j], t))
                   ELSE result.kind = "ReferenceError"

\* the outcome of file.request(target) as a function of the tree alone
RECURSIVE Walk(_, _, _)
Walk(dir, target, depth) ==
  LET h == handleRequest(dir, target)
      n == tryNext(dir, target, depth)
  IN  IF h.kind = "returned" THEN Returned(h.value)
      ELSE IF h.kind = "TypeError" THEN TypeError
      ELSE IF n.kind = "moved" THEN Walk(n.dir, target, depth + 1)
      ELSE n

Outcome(file, target) ==
  IF parent[file] = None THEN throwNotFound(target)
  ELSE Walk(parent[file], target, 1)

\* C28: every step of a request leaves entries and parents unchanged, the
\* walk starts at the requesting file's own parent, and the outcome is the
\* one the tree, the file and the target determine.
C28_RequestFrame ==
  [][(call'.op = "request")
       => /\ entries' = entries
          /\ parent' = parent
          /\ (pc = "idle" /\ parent[call'.file] # None)
               => /\ handlerDir' = parent[call'.file]
                  /\ visited' = <<parent[call'.file]>>
          /\ (pc' = "done")
               => result' = Outcome(call'.file, call'.target)]_vars

\* C28 witness: a request that walked up two levels has returned a file,
\* the tree being as it was.
C28_Witness ==
  /\ RequestDone
  /\ Len(visited) >= 2
  /\ visited[1] = parent[call.file]
  /\ result.kind = "returned"
  /\ result = Outcome(call.file, call.target)

\* the names asked of the predicates: the names of the pool's entries, with
\* and without the ".js" suffix
AskedNames == {DName(x) : x \in AllObj} \cup {StripJs(DName(x)) : x \in AllObj}

\* d has a child under name n whose class is one of kinds
ChildOfKind(d, n, kinds) ==
  n \in DOMAIN entries[d] /\ Kind(entries[d][n]) \in kinds

\* C29: hasDirectory(n) is true exactly when the directory has a child named
\* n that is a Directory, hasFile(n) exactly when it has a child named n.js
\* that is a File, hasPackage() exactly when it has a child named
\* package.json that is a Package; all three are false without children.
C29_PredicatesMatchVariant ==
  \A d \in AllDirs :
    /\ \A n \in AskedNames :
         /\ hasDirectory(d, n) <=> ChildOfKind(d, n, {"Directory"})
         /\ hasFile(d, n) <=> ChildOfKind(d, WithJs(n), {"File", "Package"})
    /\ hasPackage(d) <=> ChildOfKind(d, PackageJson, {"Package"})

\* ------------------------------------------------------ the Iterator example

\* the longest array handed to BSTCollection or treeSort
MaxLen == 6

\* the numbers in the arrays
BstValues == {0, 1, 2}

\* the arrays: non-empty, duplicates allowed
Arrays == UNION {[1..n -> BstValues] : n \in 1..MaxLen}

\* everything but the Iterator example's state
notIter == <<treeVars, cmdVars, compVars, singVars, memVars>>

\* s with v put before the first element greater than v
RECURSIVE Insert(_, _)
Insert(s, v) ==
  IF s = <<>> THEN <<v>>
  ELSE IF v < Head(s) THEN <<v>> \o s
  ELSE <<Head(s)>> \o Insert(Tail(s), v)

\* data.slice().sort((a, b) => a - b)
RECURSIVE SortAsc(_)
SortAsc(s) == IF s = <<>> THEN <<>> ELSE Insert(SortAsc(Front(s)), Last(s))

\* build(left, right) of BSTCollection.buildTree over the sorted copy; the
\* node made for data[mid] is numbered mid
RECURSIVE build(_, _, _)
build(sorted, left, right) ==
  IF left > right THEN NoTree
  ELSE LET mid == (left + right + 1) \div 2
           leftNode == build(sorted, left, mid - 1)
           rightNode == build(sorted, mid + 1, right)
       IN  [root  |-> mid,
            nodes |-> (mid :> [val   |-> sorted[mid + 1],
                               left  |-> leftNode.root,
                               right |-> rightNode.root])
                        @@ leftNode.nodes @@ rightNode.nodes]

\* BSTCollection.buildTree(data)
buildTree(d) == build(SortAsc(d), 0, Len(d) - 1)

\* BSTIterator.traverseLeft: push node and its left descendants
RECURSIVE traverseLeft(_, _)
traverseLeft(stack, node) ==
  IF node = NoNode THEN stack
  ELSE traverseLeft(Append(stack, node), tree.nodes[node].left)

\* next that does not descend into the right subtree
nextNoRight(it) ==
  LET nxt == IF it.stack = <<>> THEN NoNode ELSE Last(it.stack)
      popped == IF it.stack = <<>> THEN <<>> ELSE Front(it.stack)
  IN  [it EXCEPT !.cursor = nxt, !.stack = popped]

\* BSTIterator.next
next(it) ==
  LET nxt == IF it.stack = <<>> THEN NoNode ELSE Last(it.stack)
      popped == IF it.stack = <<>> THEN <<>> ELSE Front(it.stack)
  IN  [it EXCEPT
         !.cursor = nxt,
         !.stack = IF nxt # NoNode /\ tree.nodes[nxt].right # NoNode
                     THEN traverseLeft(popped, tree.nodes[nxt].right)
                     ELSE popped]

\* new BSTIterator(root)
newIterator(root) ==
  next([root |-> root, cursor |-> root, stack |-> traverseLeft(<<>>, root)])

\* BSTIterator.first
first(it) == next([it EXCEPT !.stack = traverseLeft(<<>>, it.root)])

\* BSTIterator.isDone
isDone(it) == it.cursor = NoNode

\* BSTIterator.getCursor: {val}, or {} for undefined
getCursor(it) ==
  IF it.cursor # NoNode THEN {tree.nodes[it.cursor].val} ELSE {}

\* new BSTCollection(d), the caller keeping d
NewCollection(d) ==
  /\ pc = "idle"
  /\ tree = NoTree
  /\ data' = d
  /\ tree' = buildTree(d)
  /\ UNCHANGED <<iter, out, ops, pc, call, result>>
  /\ UNCHANGED notIter

\* bst.createIterator()
CreateIterator ==
  /\ pc = "idle"
  /\ tree # NoTree
  /\ iter = NoIter
  /\ iter' = newIterator(tree.root)
  /\ UNCHANGED <<data, tree, out, ops, pc, call, result>>
  /\ UNCHANGED notIter

\* traverse(iter) up to the loop: data = [], iter.first()
Traverse ==
  /\ pc = "idle"
  /\ iter # NoIter
  /\ call' = [op |-> "traverse"]
  /\ pc' = "loop"
  /\ out' = <<>>
  /\ iter' = first(iter)
  /\ UNCHANGED <<data, tree, ops, result>>
  /\ UNCHANGED notIter

\* one round of while (!iter.isDone()), or the return of data
TraverseLoop ==
  /\ pc = "loop"
  /\ call.op = "traverse"
  /\ IF ~ isDone(iter)
       THEN /\ out' = Append(out, getCursor(iter))
            /\ iter' = next(iter)
            /\ UNCHANGED <<pc, result>>
       ELSE /\ pc' = "done"
            /\ result' = Returned(out)
            /\ UNCHANGED <<iter, out>>
  /\ UNCHANGED <<data, tree, ops, call>>
  /\ UNCHANGED notIter

NextIter ==
  \/ \E d \in Arrays : NewCollection(d)
  \/ CreateIterator
  \/ Traverse
  \/ TraverseLoop
  \/ Return

SpecIter == Init /\ [][NextIter]_vars

\* how often v occurs in sequence s
Count(s, v) == Cardinality({i \in 1..Len(s) : s[i] = v})

\* C22: traverse ends after at most one round per element and returns the
\* elements of data in ascending order, each occurrence once; data is as the
\* caller gave it.
C22_AscendingOrder ==
  /\ call.op = "traverse" => Len(out) <= Len(data)
  /\ (pc = "done" /\ call.op = "traverse")
       => /\ result = Returned(out)
          /\ Len(out) = Len(data)
          /\ \A i \in 1..Len(out) : Cardinality(out[i]) = 1
          /\ \A i \in 1..(Len(out) - 1) :
               \A a \in out[i], b \in out[i + 1] : a <= b
          /\ \A v \in BstValues : Count(out, {v}) = Count(data, v)
  /\ tree # NoTree => data \in Arrays /\ tree = buildTree(data)

\* C22 witness: traverse has returned for an array of six numbers with a
\* duplicate that was not in ascending order.
C22_Witness ==
  /\ pc = "done"
  /\ call.op = "traverse"
  /\ data = <<2, 1, 0, 2, 0, 1>>
  /\ out = <<{0}, {0}, {1}, {1}, {2}, {2}>>

\* ------------------------------------- the earlier version of the Iterator

\* the rounds of the traverse loop that are followed
OutLimit == 8

\* insert(root, val) of buildTree: the new node is numbered id
RECURSIVE insert(_, _, _, _)
insert(nodes, root, id, val) ==
  LET leaf == [val |-> val, left |-> NoNode, right |-> NoNode]
  IN  IF nodes[root].val > val
        THEN IF nodes[root].left # NoNode
               THEN insert(nodes, nodes[root].left, id, val)
               ELSE (id :> leaf) @@ [nodes EXCEPT ![root].left = id]
        ELSE IF nodes[root].right # NoNode
               THEN insert(nodes, nodes[root].right, id, val)
               ELSE (id :> leaf) @@ [nodes EXCEPT ![root].right = id]

\* data.forEach((val) => insert(root, val)) over the first n of rest
RECURSIVE insertEach(_, _, _)
insertEach(nodes, rest, n) ==
  IF n = 0 THEN nodes
  ELSE insert(insertEach(nodes, rest, n - 1), 0, n, rest[n])

\* buildTree(data) of the earlier version: data.pop() is the root, numbered 0
buildTreeEarlier(d) ==
  LET rest == Front(d)
      root == 0 :> [val |-> Last(d), left |-> NoNode, right |-> NoNode]
  IN  [root |-> 0, nodes |-> insertEach(root, rest, Len(rest))]

\* BSTIterator.traverseLeft of the earlier version
RECURSIVE traverseLeftEarlier(_, _, _)
traverseLeftEarlier(nodes, stack, node) ==
  IF node = NoNode THEN stack
  ELSE traverseLeftEarlier(nodes, Append(stack, node), nodes[node].left)

\* BSTIterator.next of the earlier version
nextEarlier(it) ==
  IF it.stack = <<>> THEN it
  ELSE LET nxt == Last(it.stack)
           popped == Front(it.stack)
       IN  [it EXCEPT
              !.cursor = nxt,
              !.stack = IF tree.nodes[nxt].right # NoNode
                          THEN traverseLeftEarlier(tree.nodes, popped,
                                                   tree.nodes[nxt].right)
                          ELSE popped]

\* treeSort(d) up to the loop of BSTTraverser.traverse: buildTree(d),
\* createIterator(), iterator.first()
TreeSort(d) ==
  /\ pc = "idle"
  /\ tree = NoTree
  /\ call' = [op |-> "treeSort", data |-> d]
  /\ pc' = "loop"
  /\ data' = Front(d)
  /\ tree' = buildTreeEarlier(d)
  /\ out' = <<>>
  /\ iter' = [root   |-> 0,
              cursor |-> 0,
              stack  |-> traverseLeftEarlier(tree'.nodes, <<>>, 0)]
  /\ UNCHANGED <<ops, result>>
  /\ UNCHANGED notIter

\* one round of while (!iterator.isDone()), or the return of data
TreeSortLoop ==
  /\ pc = "loop"
  /\ call.op = "treeSort"
  /\ Len(out) < OutLimit
  /\ IF ~ isDone(iter)
       THEN /\ out' = out \o [i \in 1..Cardinality(getCursor(iter))
                                 |-> getCursor(iter)]
            /\ iter' = nextEarlier(iter)
            /\ UNCHANGED <<pc, result>>
       ELSE /\ pc' = "done"
            /\ result' = Returned(out)
            /\ UNCHANGED <<iter, out>>
  /\ UNCHANGED <<data, tree, ops, call>>
  /\ UNCHANGED notIter

NextSort ==
  \/ \E d \in Arrays : TreeSort(d)
  \/ TreeSortLoop

SpecSort == Init /\ [][NextSort]_vars

\* C30: treeSort(data) collects at most one value per element of data, and
\* what it has collected is in ascending order.
C30_TreeSortTerminates ==
  call.op = "treeSort"
    => /\ Len(out) <= Len(call.data)
       /\ \A i \in 1..(Len(out) - 1) :
            \A a \in out[i], b \in out[i + 1] : a <= b

\* ----------------------------------------------------- the Composite example

\* the calls made on the components
MaxCompOps == 4

\* everything but the Composite example's state
notComp == <<treeVars, cmdVars, iterVars, singVars, memVars>>

\* n >> 1 for n in the int32 range: the floor of the half
Shr1(n) == n \div 2

\* Component.compress: the new size of a component of size sz
compressOne(sz) == Shr1(sz) + 1

\* the names in s without n
RECURSIVE Without(_, _)
Without(s, n) ==
  IF s = <<>> THEN <<>>
  ELSE IF Head(s) = n THEN Without(Tail(s), n)
  ELSE <<Head(s)>> \o Without(Tail(s), n)

\* this.children[child.name] = child: a new key goes last, a key already
\* there keeps its place
WithChild(s, n) == IF \E i \in 1..Len(s) : s[i] = n THEN s ELSE Append(s, n)

\* compress() of component c: the sizes afterwards. A File takes
\* Component.compress; a Directory takes off, child after child in the order
\* of Object.values, what the child's own compress() took off the child.
RECURSIVE compress(_, _, _)
compress(sz, c, upto) ==
  IF c \in CompFiles THEN [sz EXCEPT ![c] = compressOne(sz[c])]
  ELSE IF upto = 0 THEN sz
  ELSE LET before == compress(sz, c, upto - 1)
           child == children[c][upto]
           after == compress(before, child,
                             IF child \in CompDirs THEN Len(children[child])
                             ELSE 0)
       IN  [after EXCEPT ![c] = before[c] - (before[child] - after[child])]

\* the pairs directory.add(child) and directory.remove(child) are called for
CompPairs == (CompDirs \X CompFiles) \cup {<<"parentDir", "childDir">>}

\* Directory.add
CompAdd(d, c) ==
  /\ pc = "idle"
  /\ ops < MaxCompOps
  /\ ops' = ops + 1
  /\ call' = [op |-> "compAdd", dir |-> d, child |-> c]
  /\ pc' = "done"
  /\ children' = [children EXCEPT ![d] = WithChild(@, c)]
  /\ compParent' = [compParent EXCEPT ![c] = d]
  /\ compSize' = [compSize EXCEPT ![d] = @ + compSize[c]]
  /\ result' = Returned(Undefined)
  /\ UNCHANGED notComp

\* Directory.remove
CompRemove(d, c) ==
  /\ pc = "idle"
  /\ ops < MaxCompOps
  /\ ops' = ops + 1
  /\ call' = [op |-> "compRemove", dir |-> d, child |-> c]
  /\ pc' = "done"
  /\ children' = [children EXCEPT ![d] = Without(@, c)]
  /\ compParent' = [compParent EXCEPT ![c] = Null]
  /\ compSize' = [compSize EXCEPT ![d] = @ - compSize[c]]
  /\ result' = Returned(Undefined)
  /\ UNCHANGED notComp

\* File.add and File.remove
LeafThrows(f, c) ==
  /\ pc = "idle"
  /\ ops < MaxCompOps
  /\ ops' = ops + 1
  /\ call' = [op |-> "leafAdd", dir |-> f, child |-> c]
  /\ pc' = "done"
  /\ result' = [kind |-> "Error"]
  /\ UNCHANGED compVars
  /\ UNCHANGED notComp

\* File.compress and Directory.compress
CompCompress(c) ==
  /\ pc = "idle"
  /\ ops < MaxCompOps
  /\ ops' = ops + 1
  /\ call' = [op |-> "compress", dir |-> c, child |-> c, was |-> compSize[c]]
  /\ pc' = "done"
  /\ compSize' = compress(compSize, c,
                          IF c \in CompDirs THEN Len(children[c]) ELSE 0)
  /\ result' = Returned(compSize'[c])
  /\ UNCHANGED <<children, compParent>>
  /\ UNCHANGED notComp

NextComp ==
  \/ \E p \in CompPairs : CompAdd(p[1], p[2])
  \/ \E p \in CompPairs : CompRemove(p[1], p[2])
  \/ \E f \in CompFiles, c \in Components : LeafThrows(f, c)
  \/ \E c \in Components : CompCompress(c)
  \/ Return

SpecComp == Init /\ [][NextComp]_vars

\* the sum of the sizes of the components named in s
RECURSIVE SumSizes(_)
SumSizes(s) == IF s = <<>> THEN 0 ELSE compSize[Head(s)] + SumSizes(Tail(s))

\* C23: every Directory's size is its own initial size plus the sum of the
\* current sizes of its current children.
C23_SizeAccounting ==
  \A d \in CompDirs :
    compSize[d] = ConstructedSize(d) + SumSizes(children[d])

\* the largest size a component is constructed with
MaxSize == 40

\* new File('file1', sz) and new Directory('parentDir', sz)
NewComponent(c, sz) ==
  /\ pc = "idle"
  /\ ops = 0
  /\ ops' = 1
  /\ compSize' = [compSize EXCEPT ![c] = sz]
  /\ UNCHANGED <<children, compParent, pc, call, result>>
  /\ UNCHANGED notComp

NextCompress ==
  \/ \E c \in {"file1", "parentDir"}, sz \in 0..MaxSize : NewComponent(c, sz)
  \/ \E c \in Components : CompCompress(c)
  \/ Return

SpecCompress == Init /\ [][NextCompress]_vars

\* C24: compress() sets the size of the component to (size >> 1) + 1,
\* returns it, and the result is never below 2.
C24_CompressFloor ==
  (pc = "done" /\ call.op = "compress")
    => /\ result.value = compSize[call.dir]
       /\ result.value = Shr1(call.was) + 1
       /\ result.value >= 2

\* ----------------------------------------------------- the Singleton example

\* the calls made on Database and its subclass
MaxSingOps == 8

\* Database, and class DbExt extends Database
Classes == {"Database", "DbExt"}

\* everything but the Singleton example's state
notSing == <<treeVars, cmdVars, iterVars, compVars, memVars>>

\* getInstance that constructs at every call
GetInstanceAlwaysNew(cls) ==
  /\ pc = "idle"
  /\ ops < MaxSingOps
  /\ ops' = ops + 1
  /\ call' = [op |-> "getInstance", class |-> cls]
  /\ pc' = "done"
  /\ created' = created + 1
  /\ instance' = {created'}
  /\ result' = Returned(instance')
  /\ got' = got \cup instance'
  /\ UNCHANGED notSing

\* Database.getInstance, called on Database or on DbExt: both read and write
\* the static field of Database. The instances are numbered as constructed;
\* got collects the ones returned since the last clean.
GetInstance(cls) ==
  /\ pc = "idle"
  /\ ops < MaxSingOps
  /\ ops' = ops + 1
  /\ call' = [op |-> "getInstance", class |-> cls]
  /\ pc' = "done"
  /\ IF instance = NoInstance
       THEN /\ created' = created + 1
            /\ instance' = {created'}
       ELSE UNCHANGED <<created, instance>>
  /\ result' = Returned(instance')
  /\ got' = got \cup instance'
  /\ UNCHANGED notSing

\* Database.isInitialized
IsInitialized(cls) ==
  /\ pc = "idle"
  /\ ops < MaxSingOps
  /\ ops' = ops + 1
  /\ call' = [op |-> "isInitialized", class |-> cls]
  /\ pc' = "done"
  /\ result' = Returned(instance # NoInstance)
  /\ UNCHANGED singVars
  /\ UNCHANGED notSing

\* Database.clean
Clean(cls) ==
  /\ pc = "idle"
  /\ ops < MaxSingOps
  /\ ops' = ops + 1
  /\ call' = [op |-> "clean", class |-> cls]
  /\ pc' = "done"
  /\ instance' = NoInstance
  /\ got' = {}
  /\ result' = Returned(NoInstance)
  /\ UNCHANGED created
  /\ UNCHANGED notSing

NextSing ==
  \/ \E cls \in Classes : GetInstance(cls)
  \/ \E cls \in Classes : IsInitialized(cls)
  \/ \E cls \in Classes : Clean(cls)
  \/ Return

SpecSing == Init /\ [][NextSing]_vars

\* C25: the calls of getInstance since the last clean, on Database or on its
\* subclass, all returned one and the same instance, and isInitialized
\* returns true exactly when getInstance was called since the last clean.
C25_SingleInstance ==
  /\ Cardinality(got) <= 1
  /\ (pc = "done" /\ call.op = "getInstance")
       => /\ Cardinality(result.value) = 1
          /\ got = result.value
  /\ (pc = "done" /\ call.op = "isInitialized")
       => result.value = (got # {})

\* C25 witness: after a clean the subclass gets the second instance
\* constructed, the one Database got before in the same period.
C25_Witness ==
  /\ pc = "done"
  /\ call = [op |-> "getInstance", class |-> "DbExt"]
  /\ created = 2
  /\ result = Returned({2})
  /\ ops = 4

\* ------------------------------------------------------- the Memento example

\* the calls made on the File and on Git
MaxMemOps == 6

\* the names given to rename
FileNames == {"a.txt", "b \"c\".txt"}

\* the texts given to addText, as sequences of characters
AddTexts == {<<>>, <<"x">>, <<"\"", "\\", "y", "y">>}

\* the ids makeId comes up with
Ids == {"1A2B3C4", "FFFFFFF", "8"}

\* everything but the Memento example's state
notMem == <<treeVars, cmdVars, iterVars, compVars, singVars>>

\* the characters of a string as JSON.stringify writes them between the
\* quotes: a quote and a backslash get a backslash in front
RECURSIVE Escape(_)
Escape(t) ==
  IF t = <<>> THEN <<>>
  ELSE (IF Head(t) \in {"\"", "\\"} THEN <<"\\", Head(t)>> ELSE <<Head(t)>>)
         \o Escape(Tail(t))

\* the characters JSON.parse reads between the quotes: the character after
\* a backslash is taken as it is
RECURSIVE Unescape(_)
Unescape(t) ==
  IF t = <<>> THEN <<>>
  ELSE IF Head(t) = "\\" THEN <<t[2]>> \o Unescape(Tail(Tail(t)))
  ELSE <<Head(t)>> \o Unescape(Tail(t))

\* the decimal digits JSON.stringify writes for a non-negative integer
RECURSIVE Digits(_)
Digits(n) == IF n < 10 THEN <<n>> ELSE Digits(n \div 10) \o <<n % 10>>

\* the number JSON.parse reads from decimal digits
RECURSIVE Number(_)
Number(ds) ==
  IF Len(ds) = 1 THEN ds[1] ELSE 10 * Number(Front(ds)) + Last(ds)

\* JSON.stringify of a FileData: the three members as written in the text
stringify(st) ==
  [name      |-> <<"\"", st.name, "\"">>,
   text      |-> <<"\"">> \o Escape(st.text) \o <<"\"">>,
   sizeBytes |-> Digits(st.sizeBytes)]

\* JSON.parse that keeps the text between the quotes as written
parseRaw(json) ==
  [name      |-> json.name[2],
   text      |-> SubSeq(json.text, 2, Len(json.text) - 1),
   sizeBytes |-> Number(json.sizeBytes)]

\* JSON.parse of the text of a FileData
parse(json) ==
  [name      |-> json.name[2],
   text      |-> Unescape(SubSeq(json.text, 2, Len(json.text) - 1)),
   sizeBytes |-> Number(json.sizeBytes)]

\* File.rename
Rename(n) ==
  /\ pc = "idle"
  /\ ops < MaxMemOps
  /\ ops' = ops + 1
  /\ call' = [op |-> "rename", id |-> n]
  /\ pc' = "done"
  /\ state' = [state EXCEPT !.name = n]
  /\ result' = Returned(Undefined)
  /\ UNCHANGED <<mementos, committed>>
  /\ UNCHANGED notMem

\* File.addText
AddText(t) ==
  /\ pc = "idle"
  /\ ops < MaxMemOps
  /\ ops' = ops + 1
  /\ call' = [op |-> "addText", id |-> Undefined]
  /\ pc' = "done"
  /\ state' = [state EXCEPT !.text = @ \o t, !.sizeBytes = @ + Len(t)]
  /\ result' = Returned(Undefined)
  /\ UNCHANGED <<mementos, committed>>
  /\ UNCHANGED notMem

\* Git.commit: createMemento, then addMemento under an id that is not a key
\* of mementos yet; committed keeps the file's state as it is at this call
Commit(id) ==
  /\ pc = "idle"
  /\ ops < MaxMemOps
  /\ id \notin DOMAIN mementos
  /\ ops' = ops + 1
  /\ call' = [op |-> "commit", id |-> id]
  /\ pc' = "done"
  /\ mementos' = (id :> parse(stringify(state))) @@ mementos
  /\ committed' = (id :> state) @@ committed
  /\ result' = Returned(id)
  /\ UNCHANGED state
  /\ UNCHANGED notMem

\* Git.rebase: setMemento(getMemento(id)); for an id that is no key,
\* getMemento gives undefined and setMemento cannot call getState on it
Rebase(id) ==
  /\ pc = "idle"
  /\ ops < MaxMemOps
  /\ ops' = ops + 1
  /\ call' = [op |-> "rebase", id |-> id]
  /\ pc' = "done"
  /\ IF id \in DOMAIN mementos
       THEN /\ state' = parse(stringify(mementos[id]))
            /\ result' = Returned(Undefined)
       ELSE /\ result' = [kind |-> "TypeError"]
            /\ UNCHANGED state
  /\ UNCHANGED <<mementos, committed>>
  /\ UNCHANGED notMem

NextMem ==
  \/ \E n \in FileNames : Rename(n)
  \/ \E t \in AddTexts : AddText(t)
  \/ \E id \in Ids : Commit(id)
  \/ \E id \in Ids : Rebase(id)
  \/ Return

SpecMem == Init /\ [][NextMem]_vars

\* C26: rebase(id) with an id an earlier commit returned leaves the file's
\* name, text and sizeBytes exactly as they were at that commit, and every
\* stored snapshot is still the file's state at its commit.
C26_RoundTrip ==
  /\ DOMAIN mementos = DOMAIN committed
  /\ \A id \in DOMAIN mementos : mementos[id] = committed[id]
  /\ (pc = "done" /\ call.op = "rebase" /\ call.id \in DOMAIN committed)
       => state = committed[call.id]

\* C26 witness: a rebase has brought back, after a later edit, a text that
\* holds quotes and backslashes and a size of two digits.
C26_Witness ==
  /\ pc = "done"
  /\ call.op = "rebase"
  /\ call.id \in DOMAIN committed
  /\ state.sizeBytes = 13
  /\ state.text = <<"\"", "\\", "y", "y", "\"", "\\", "y", "y",
                    "\"", "\\", "y", "y">>
  /\ ops = 6

====
